---- MODULE Spec2Model ----
(***************************************************************************)
(* Deck hierarchy maintenance of rslib/src/decks/add.rs.                   *)
(*                                                                         *)
(* A deck name is a string; here a string is a sequence of one-character   *)
(* strings, so that split, join, rsplitn and `+=` are modelled by what     *)
(* they do.  The collection's deck table is a set of rows.  Every          *)
(* function that returns Result<..> threads a record                       *)
(*   [decks, deck, fuel, now, err]                                         *)
(* in which `decks` is the table as the transaction body sees it, `deck`   *)
(* is the caller's `&mut Deck`, `err` is "Ok" or the error returned, and   *)
(* `fuel` injects a storage failure: fuel = n > 0 makes the n-th row write *)
(* of the call fail, fuel = 0 injects none.  An operator applied to a      *)
(* record whose err is not "Ok" returns it unchanged: that is Rust's `?`.  *)
(***************************************************************************)
EXTENDS Integers, Sequences, FiniteSets, TLC

VARIABLES decks, univ, steps, last

vars == <<decks, univ, steps, last>>

-----------------------------------------------------------------------------
(* Bounds of the model. *)

\* number of public calls in one behaviour
MaxOps == 2
\* storage-failure injection: the n-th row write of a call fails, n <= MaxFail
MaxFail == 3

-----------------------------------------------------------------------------
(* Strings. *)

\* the reserved separator '\x1f'
SEP == "|"
\* a character that is not allowed in a deck name component
QUOTE == "'"

Ok == "Ok"
Kinds == {"Normal", "Filtered"}

\* Unicode case folding of one character, as the `unicase` collation of the
\* decks.name column sees it.
FoldChar(ch) ==
    CASE ch = "A" -> "a"
      [] ch = "B" -> "b"
      [] OTHER -> ch

Fold(name) == [i \in 1..Len(name) |-> FoldChar(name[i])]

\* str::matches(ch).count()
matches_count(name, ch) == Cardinality({i \in 1..Len(name) : name[i] = ch})

\* position of the last separator of name, 0 when it has none
LastSep(name) ==
    IF \E i \in 1..Len(name) : name[i] = SEP
    THEN CHOOSE i \in 1..Len(name) :
            /\ name[i] = SEP
            /\ \A j \in (i + 1)..Len(name) : name[j] # SEP
    ELSE 0

\* position of the first separator of name, 0 when it has none
FirstSep(name) ==
    IF \E i \in 1..Len(name) : name[i] = SEP
    THEN CHOOSE i \in 1..Len(name) :
            /\ name[i] = SEP
            /\ \A j \in 1..(i - 1) : name[j] # SEP
    ELSE 0

\* str::split('\x1f'): the components of name, in order; the empty string
\* yields one empty component.
RECURSIVE split(_)
split(name) ==
    LET i == FirstSep(name)
    IN  IF i = 0
        THEN <<name>>
        ELSE <<SubSeq(name, 1, i - 1)>> \o split(SubSeq(name, i + 1, Len(name)))

\* [&str]::join("\x1f")
RECURSIVE join(_)
join(comps) ==
    IF Len(comps) = 0 THEN <<>>
    ELSE IF Len(comps) = 1 THEN comps[1]
    ELSE comps[1] \o <<SEP>> \o join(Tail(comps))

\* name.rsplitn(2, '\x1f').nth(1): everything before the last separator.
\* An Option is a set with at most one element.
immediate_parent_name(name) ==
    LET i == LastSep(name)
    IN  IF i = 0 THEN {} ELSE {SubSeq(name, 1, i - 1)}


\* normalized_deck_name_component: characters that are not allowed are
\* dropped, and a component left empty becomes "blank".
normalized_component(comp) ==
    LET out == SelectSeq(comp, LAMBDA ch : ch # QUOTE)
    IN  IF Len(out) = 0 THEN <<"b", "l", "a", "n", "k">> ELSE out

\* normalize_native_name: the name with every component normalized.  The
\* result is Cow::Owned exactly when some component had to be changed.
normalize_native_name(name) ==
    LET comps == split(name)
    IN  join([i \in 1..Len(comps) |-> normalized_component(comps[i])])

normalize_is_owned(name) ==
    LET comps == split(name)
    IN  \E i \in 1..Len(comps) : normalized_component(comps[i]) # comps[i]

-----------------------------------------------------------------------------
(* Decks and storage. *)

\* Deck::new_normal(): id 0, empty name, no modification stamp yet
new_normal == [id |-> 0, name |-> <<>>, kind |-> "Normal", mtime |-> 0, usn |-> 0]

is_filtered(deck) == deck.kind = "Filtered"

\* Deck::set_modified(usn): mtime = now, usn = usn
set_modified(deck, usn, now) == [deck EXCEPT !.mtime = now, !.usn = usn]

\* Collection::usn(): the sync version stamped by this client
ColUsn == 0 - 1

\* storage.get_deck(id) -> Option<Deck>
get_deck(rows, id) == {d \in rows : d.id = id}

\* storage.get_deck_id(name) -> Option<DeckId>: the name column is compared
\* under the case-insensitive collation.
get_deck_id(rows, name) == {d.id : d \in {r \in rows : Fold(r.name) = Fold(name)}}

\* storage.child_decks(deck): the rows whose name starts with the deck's
\* name followed by the separator
child_decks(rows, deck) ==
    {d \in rows :
        /\ Len(d.name) > Len(deck.name)
        /\ SubSeq(d.name, 1, Len(deck.name) + 1) = deck.name \o <<SEP>>}

\* id allocation of storage.add_deck: an id no row has, never 0
alloc_id(rows) ==
    IF rows = {} THEN 1
    ELSE 1 + (CHOOSE m \in {d.id : d \in rows} : \A d \in rows : d.id <= m)

\* One row write.  `rows` is the table as the write leaves it; the write
\* fails with a storage error when the injected failure is due.
storage_write(st, rows) ==
    IF st.err # Ok THEN st
    ELSE IF st.fuel = 1 THEN [st EXCEPT !.err = "DbError", !.fuel = 0]
    ELSE [st EXCEPT !.decks = rows, !.fuel = IF @ = 0 THEN 0 ELSE @ - 1]

\* add_deck_undoable(&mut deck): allocates the id, inserts the row.
\* Returns the threaded record and the deck as the callee leaves it.
inserted(after, deck, id) ==
    [st |-> after, deck |-> IF after.err = Ok THEN [deck EXCEPT !.id = id] ELSE deck]

add_deck_undoable(st, deck) ==
    inserted(storage_write(st, st.decks \cup {[deck EXCEPT !.id = alloc_id(st.decks)]}),
             deck, alloc_id(st.decks))

\* update_single_deck_undoable(deck, original): rewrites the row of deck.id
update_single_deck_undoable(st, deck, original) ==
    storage_write(st, {d \in st.decks : d.id # deck.id} \cup {deck})

\* add_or_update_deck_with_existing_id_undoable(deck): inserts the row, or
\* replaces the row that has the deck's id
add_or_update_deck_with_existing_id_undoable(st, deck) ==
    storage_write(st, {d \in st.decks : d.id # deck.id} \cup {deck})

\* ensure_deck_name_unique(deck, usn): while another deck has the name,
\* append "+" to it and stamp the deck
RECURSIVE ensure_deck_name_unique(_, _, _, _)
ensure_deck_name_unique(rows, deck, usn, now) ==
    LET found == get_deck_id(rows, deck.name)
    IN  IF found = {} \/ found = {deck.id}
        THEN deck
        ELSE ensure_deck_name_unique(
                rows, set_modified([deck EXCEPT !.name = @ \o <<"+">>], usn, now), usn, now)

\* rename_child_decks(old, new_name, usn): every child of old gets new_name
\* in place of old's components, is stamped and written, one row at a time
renamed_child(old, new_name, child, usn, now) ==
    LET old_component_count == matches_count(old.name, SEP) + 1
        child_components == split(child.name)
        child_only == SubSeq(child_components, old_component_count + 1,
                             Len(child_components))
    IN  set_modified([child EXCEPT !.name = new_name \o <<SEP>> \o join(child_only)],
                     usn, now)

RECURSIVE rename_children_loop(_, _, _, _, _)
rename_children_loop(st, children, old, new_name, usn) ==
    IF st.err # Ok \/ children = {} THEN st
    ELSE LET child == CHOOSE c \in children : \A o \in children : c.id <= o.id
             renamed == renamed_child(old, new_name, child, usn, st.now)
         IN  rename_children_loop(
                 update_single_deck_undoable(st, renamed, child),
                 children \ {child}, old, new_name, usn)

rename_child_decks(st, old, new_name, usn) ==
    IF st.err # Ok THEN st
    ELSE rename_children_loop(st, child_decks(st.decks, old), old, new_name, usn)

\* transact(op, body): commits what the body wrote when it returns Ok, rolls
\* the table back to `before` when it returns an error.  `body` keeps the
\* table as the body left it.
transact(before, st) ==
    [decks |-> IF st.err = Ok THEN st.decks ELSE before,
     deck |-> st.deck, err |-> st.err, body |-> st.decks]

-----------------------------------------------------------------------------
(* Errors. *)

\* AnkiError::invalid_input("deck to add must have id 0")
ErrIdNotZero == "InvalidInput: deck to add must have id 0"
\* AnkiError::invalid_input("deck nesting level too deep")
ErrTooDeep == "InvalidInput: deck nesting level too deep"
\* AnkiError::NotFound
ErrNotFound == "NotFound"
\* FilteredDeckError::MustBeLeafNode
ErrMustBeLeaf == "FilteredDeckMustBeLeaf"
\* an error of the storage layer
ErrDb == "DbError"

IsInvalidInput(e) == e \in {ErrIdNotZero, ErrTooDeep}

-----------------------------------------------------------------------------
(* rslib/src/decks/add.rs *)

\* the recursion guard of first_existing_parent
MaxLevel == 10

\* lines 11-14: the name is normalized, and the deck stamped if that changed it
normalized_deck(deck, usn, now) ==
    IF normalize_is_owned(deck.name)
    THEN set_modified([deck EXCEPT !.name = normalize_native_name(@)], usn, now)
    ELSE deck

\* Mutant: the uniqueness step is left out.
prepare_deck_for_update_not_unique(st, usn) ==
    IF st.err # Ok THEN st
    ELSE [st EXCEPT !.deck = normalized_deck(st.deck, usn, st.now)]

prepare_deck_for_update(st, usn) ==
    IF st.err # Ok THEN st
    ELSE [st EXCEPT !.deck =
             ensure_deck_name_unique(st.decks, normalized_deck(st.deck, usn, st.now),
                                     usn, st.now)]

add_parent_deck(st, machine_name, usn) ==
    LET deck == set_modified([new_normal EXCEPT !.name = machine_name], usn, st.now)
    IN  add_deck_undoable(st, deck).st

\* Mutant: every ancestor is created without asking whether it exists.
RECURSIVE create_missing_parents_unchecked(_, _, _)
create_missing_parents_unchecked(st, machine_name, usn) ==
    IF st.err # Ok \/ immediate_parent_name(machine_name) = {} THEN st
    ELSE create_missing_parents_unchecked(
             add_parent_deck(st, CHOOSE p \in immediate_parent_name(machine_name) : TRUE,
                             usn),
             CHOOSE p \in immediate_parent_name(machine_name) : TRUE, usn)

\* Mutant: only the immediate parent is created, the walk does not go on.
create_missing_parents_one_level(st, machine_name, usn) ==
    IF st.err # Ok \/ immediate_parent_name(machine_name) = {} THEN st
    ELSE LET parent_name == CHOOSE p \in immediate_parent_name(machine_name) : TRUE
         IN  IF get_deck_id(st.decks, parent_name) = {}
             THEN add_parent_deck(st, parent_name, usn)
             ELSE st

RECURSIVE create_missing_parents(_, _, _)
create_missing_parents(st, machine_name, usn) ==
    IF st.err # Ok \/ immediate_parent_name(machine_name) = {} THEN st
    ELSE LET parent_name == CHOOSE p \in immediate_parent_name(machine_name) : TRUE
             created == IF get_deck_id(st.decks, parent_name) = {}
                        THEN add_parent_deck(st, parent_name, usn)
                        ELSE st
         IN  create_missing_parents(created, parent_name, usn)

\* Mutant: the walk goes on above a stored ancestor and prefers what it
\* finds there.
RECURSIVE first_existing_parent_farthest(_, _, _)
first_existing_parent_farthest(rows, machine_name, recursion_level) ==
    IF recursion_level > MaxLevel
    THEN [err |-> ErrTooDeep, val |-> {}, lookups |-> 0, calls |-> 1]
    ELSE IF immediate_parent_name(machine_name) = {}
    THEN [err |-> Ok, val |-> {}, lookups |-> 0, calls |-> 1]
    ELSE LET parent_name == CHOOSE p \in immediate_parent_name(machine_name) : TRUE
             parent_did == get_deck_id(rows, parent_name)
             up == first_existing_parent_farthest(rows, parent_name, recursion_level + 1)
         IN  IF parent_did # {} /\ (up.err # Ok \/ up.val = {})
             THEN [err |-> Ok,
                   val |-> get_deck(rows, CHOOSE i \in parent_did : TRUE),
                   lookups |-> 1, calls |-> 1]
             ELSE [up EXCEPT !.lookups = @ + 1, !.calls = @ + 1]

\* Mutant: the guard looks at the depth of the name, not at the levels walked.
RECURSIVE first_existing_parent_name_depth(_, _, _)
first_existing_parent_name_depth(rows, machine_name, recursion_level) ==
    IF recursion_level + matches_count(machine_name, SEP) > MaxLevel
    THEN [err |-> ErrTooDeep, val |-> {}, lookups |-> 0, calls |-> 1]
    ELSE IF immediate_parent_name(machine_name) = {}
    THEN [err |-> Ok, val |-> {}, lookups |-> 0, calls |-> 1]
    ELSE LET parent_name == CHOOSE p \in immediate_parent_name(machine_name) : TRUE
             parent_did == get_deck_id(rows, parent_name)
         IN  IF parent_did # {}
             THEN [err |-> Ok,
                   val |-> get_deck(rows, CHOOSE i \in parent_did : TRUE),
                   lookups |-> 1, calls |-> 1]
             ELSE LET up == first_existing_parent_name_depth(
                                rows, parent_name, recursion_level + 1)
                  IN  [up EXCEPT !.lookups = @ + 1, !.calls = @ + 1]

\* Mutant: the guard lets one more level through.
RECURSIVE first_existing_parent_off_by_one(_, _, _)
first_existing_parent_off_by_one(rows, machine_name, recursion_level) ==
    IF recursion_level > MaxLevel + 1
    THEN [err |-> ErrTooDeep, val |-> {}, lookups |-> 0, calls |-> 1]
    ELSE IF immediate_parent_name(machine_name) = {}
    THEN [err |-> Ok, val |-> {}, lookups |-> 0, calls |-> 1]
    ELSE LET parent_name == CHOOSE p \in immediate_parent_name(machine_name) : TRUE
             parent_did == get_deck_id(rows, parent_name)
         IN  IF parent_did # {}
             THEN [err |-> Ok,
                   val |-> get_deck(rows, CHOOSE i \in parent_did : TRUE),
                   lookups |-> 1, calls |-> 1]
             ELSE LET up == first_existing_parent_off_by_one(
                                rows, parent_name, recursion_level + 1)
                  IN  [up EXCEPT !.lookups = @ + 1, !.calls = @ + 1]

\* Returns [err, val, lookups, calls]: val is the Option<Deck>, lookups
\* counts the storage.get_deck_id calls made, calls the nested invocations.
RECURSIVE first_existing_parent(_, _, _)
first_existing_parent(rows, machine_name, recursion_level) ==
    IF recursion_level > MaxLevel
    THEN [err |-> ErrTooDeep, val |-> {}, lookups |-> 0, calls |-> 1]
    ELSE IF immediate_parent_name(machine_name) = {}
    THEN [err |-> Ok, val |-> {}, lookups |-> 0, calls |-> 1]
    ELSE LET parent_name == CHOOSE p \in immediate_parent_name(machine_name) : TRUE
             parent_did == get_deck_id(rows, parent_name)
         IN  IF parent_did # {}
             THEN [err |-> Ok,
                   val |-> get_deck(rows, CHOOSE i \in parent_did : TRUE),
                   lookups |-> 1, calls |-> 1]
             ELSE LET up == first_existing_parent(rows, parent_name, recursion_level + 1)
                  IN  [up EXCEPT !.lookups = @ + 1, !.calls = @ + 1]

\* Mutant: a Filtered parent is accepted like a Normal one.
match_or_create_parents_any_kind(st, usn) ==
    IF st.err # Ok THEN st
    ELSE LET child_split == split(st.deck.name)
             found == first_existing_parent(st.decks, st.deck.name, 0)
         IN  IF found.err # Ok THEN [st EXCEPT !.err = found.err]
             ELSE IF found.val # {}
             THEN LET parent_deck == CHOOSE d \in found.val : TRUE
                      parent_count == matches_count(parent_deck.name, SEP) + 1
                      need_create == parent_count # Len(child_split) - 1
                      renamed == [st EXCEPT !.deck.name =
                                     parent_deck.name \o <<SEP>> \o
                                     join(SubSeq(child_split, parent_count + 1,
                                                 Len(child_split)))]
                  IN  IF need_create
                      THEN create_missing_parents(renamed, renamed.deck.name, usn)
                      ELSE renamed
             ELSE IF Len(child_split) = 1
             THEN st
             ELSE create_missing_parents(st, st.deck.name, usn)

\* Mutant: the name keeps the case the caller wrote.
match_or_create_parents_keep_case(st, usn) ==
    IF st.err # Ok THEN st
    ELSE LET child_split == split(st.deck.name)
             found == first_existing_parent(st.decks, st.deck.name, 0)
         IN  IF found.err # Ok THEN [st EXCEPT !.err = found.err]
             ELSE IF found.val # {}
             THEN LET parent_deck == CHOOSE d \in found.val : TRUE
                      parent_count == matches_count(parent_deck.name, SEP) + 1
                      need_create == parent_count # Len(child_split) - 1
                  IN  IF is_filtered(parent_deck)
                      THEN [st EXCEPT !.err = ErrMustBeLeaf]
                      ELSE IF need_create
                      THEN create_missing_parents(st, st.deck.name, usn)
                      ELSE st
             ELSE IF Len(child_split) = 1
             THEN st
             ELSE create_missing_parents(st, st.deck.name, usn)

match_or_create_parents(st, usn) ==
    IF st.err # Ok THEN st
    ELSE LET child_split == split(st.deck.name)
             found == first_existing_parent(st.decks, st.deck.name, 0)
         IN  IF found.err # Ok THEN [st EXCEPT !.err = found.err]
             ELSE IF found.val # {}
             THEN LET parent_deck == CHOOSE d \in found.val : TRUE
                      parent_count == matches_count(parent_deck.name, SEP) + 1
                      need_create == parent_count # Len(child_split) - 1
                      renamed == [st EXCEPT !.deck.name =
                                     parent_deck.name \o <<SEP>> \o
                                     join(SubSeq(child_split, parent_count + 1,
                                                 Len(child_split)))]
                  IN  IF is_filtered(parent_deck)
                      THEN [st EXCEPT !.err = ErrMustBeLeaf]
                      ELSE IF need_create
                      THEN create_missing_parents(renamed, renamed.deck.name, usn)
                      ELSE renamed
             ELSE IF Len(child_split) = 1
             THEN st
             ELSE create_missing_parents(st, st.deck.name, usn)

\* `deck.set_modified(usn)` of add_deck_inner and update_deck_inner
stamp_deck(st, usn) ==
    IF st.err # Ok THEN st ELSE [st EXCEPT !.deck = set_modified(@, usn, st.now)]

\* `self.add_deck_undoable(deck)` on the caller's deck
keep_added(added) == [added.st EXCEPT !.deck = added.deck]

add_own_row(st) ==
    IF st.err # Ok THEN st ELSE keep_added(add_deck_undoable(st, st.deck))

add_deck_inner(st, usn) ==
    add_own_row(
        match_or_create_parents(
            stamp_deck(prepare_deck_for_update(st, usn), usn), usn))

\* The body of a call starts with the table as stored.
Begin(rows, deck, fuel, now) ==
    [decks |-> rows, deck |-> deck, fuel |-> fuel, now |-> now, err |-> Ok]

\* Mutant: the id of the deck to add is not looked at.
add_deck_any_id(rows, deck, fuel, now) ==
    [tx |-> TRUE] @@ transact(rows, add_deck_inner(Begin(rows, deck, fuel, now), ColUsn))

\* Returns [decks, deck, err, body, tx]: the table and the caller's deck
\* after the call, the result, the table as the body left it, and whether a
\* transaction was opened.
add_deck(rows, deck, fuel, now) ==
    IF deck.id # 0
    THEN [decks |-> rows, deck |-> deck, err |-> ErrIdNotZero, body |-> rows,
          tx |-> FALSE]
    ELSE [tx |-> TRUE] @@ transact(rows, add_deck_inner(Begin(rows, deck, fuel, now), ColUsn))

\* `self.rename_child_decks(&original, &deck.name, usn)`
rename_children_of(st, original, usn) ==
    IF st.err # Ok THEN st ELSE rename_child_decks(st, original, st.deck.name, usn)

\* `self.update_single_deck_undoable(deck, original)`
update_own_row(st, original) ==
    IF st.err # Ok THEN st ELSE update_single_deck_undoable(st, st.deck, original)

\* `self.create_missing_parents(&deck.name, usn)` after the update
post_pass(st, usn) ==
    IF st.err # Ok THEN st ELSE create_missing_parents(st, st.deck.name, usn)

\* lines 61-74, with `stamped` the state after line 60
update_steps(stamped, original, usn) ==
    IF original.name # stamped.deck.name
    THEN post_pass(
             update_own_row(
                 rename_children_of(match_or_create_parents(stamped, usn), original, usn),
                 original),
             usn)
    ELSE update_own_row(stamped, original)

\* Mutant: the children are not renamed.
update_steps_no_cascade(stamped, original, usn) ==
    IF original.name # stamped.deck.name
    THEN post_pass(update_own_row(match_or_create_parents(stamped, usn), original), usn)
    ELSE update_own_row(stamped, original)

\* Mutant: the post-pass that re-creates the ancestors is left out.
update_steps_no_postpass(stamped, original, usn) ==
    IF original.name # stamped.deck.name
    THEN update_own_row(
             rename_children_of(match_or_create_parents(stamped, usn), original, usn),
             original)
    ELSE update_own_row(stamped, original)

\* Mutant: the ancestors are reconciled whether or not the name changed.
update_steps_always_reconciled(stamped, original, usn) ==
    post_pass(
        update_own_row(
            rename_children_of(match_or_create_parents(stamped, usn), original, usn),
            original),
        usn)

update_deck_inner_always_reconciled(st, original, usn) ==
    update_steps_always_reconciled(
        stamp_deck(prepare_deck_for_update(st, usn), usn), original, usn)

\* Mutant: the ancestors are re-created before the deck's own row is written.
update_steps_postpass_first(stamped, original, usn) ==
    IF original.name # stamped.deck.name
    THEN update_own_row(
             post_pass(
                 rename_children_of(match_or_create_parents(stamped, usn), original, usn),
                 usn),
             original)
    ELSE update_own_row(stamped, original)

update_deck_inner_postpass_first(st, original, usn) ==
    update_steps_postpass_first(
        stamp_deck(prepare_deck_for_update(st, usn), usn), original, usn)

update_deck_inner_no_cascade(st, original, usn) ==
    update_steps_no_cascade(stamp_deck(prepare_deck_for_update(st, usn), usn), original, usn)

update_deck_inner_no_postpass(st, original, usn) ==
    update_steps_no_postpass(stamp_deck(prepare_deck_for_update(st, usn), usn), original, usn)

update_deck_inner(st, original, usn) ==
    update_steps(stamp_deck(prepare_deck_for_update(st, usn), usn), original, usn)

\* Mutant: a deck whose id has no row is written as if it were its own original.
update_deck_body_upsert(st, existing) ==
    update_deck_inner(st, IF existing = {} THEN st.deck ELSE CHOOSE d \in existing : TRUE, ColUsn)

\* lines 48-49: the body of update_deck's transaction
update_deck_body(st, existing) ==
    IF existing = {}
    THEN [st EXCEPT !.err = ErrNotFound]
    ELSE update_deck_inner(st, CHOOSE d \in existing : TRUE, ColUsn)

\* Mutant: the body runs outside a transaction, so nothing is rolled back.
not_transacted(st) ==
    [tx |-> FALSE, decks |-> st.decks, deck |-> st.deck, err |-> st.err, body |-> st.decks]

update_deck_no_rollback(rows, deck, fuel, now) ==
    not_transacted(update_deck_body(Begin(rows, deck, fuel, now), get_deck(rows, deck.id)))

update_deck(rows, deck, fuel, now) ==
    [tx |-> TRUE] @@
    transact(rows, update_deck_body(Begin(rows, deck, fuel, now), get_deck(rows, deck.id)))

\* `self.add_or_update_deck_with_existing_id_undoable(deck)` on the caller's deck
write_existing(st) ==
    IF st.err # Ok THEN st ELSE add_or_update_deck_with_existing_id_undoable(st, st.deck)

\* Mutant: the deck is stamped whether or not its name changed.
add_or_update_single_deck_with_existing_id_stamped(st, usn) ==
    write_existing(stamp_deck(prepare_deck_for_update(st, usn), usn))

\* lines 80-87: used by sync and import; the caller sets up the transaction
add_or_update_single_deck_with_existing_id(st, usn) ==
    write_existing(prepare_deck_for_update(st, usn))

\* i64's Display: the decimal digits of a number that is not negative
DigitChars == <<"0", "1", "2", "3", "4", "5", "6", "7", "8", "9">>

RECURSIVE to_string(_)
to_string(n) ==
    IF n < 10 THEN <<DigitChars[n + 1]>>
    ELSE to_string(n \div 10) \o <<DigitChars[(n % 10) + 1]>>

\* format!("recovered{}", did)
recovered_name(did) ==
    <<"r", "e", "c", "o", "v", "e", "r", "e", "d">> \o to_string(did)

\* Mutant: the new deck keeps the id 0 of Deck::new_normal().
recover_missing_deck_no_id(st, did, usn) ==
    add_or_update_single_deck_with_existing_id(
        [st EXCEPT !.deck =
            set_modified([new_normal EXCEPT !.name = recovered_name(did)], usn, st.now)],
        usn)

\* lines 89-95
recover_missing_deck(st, did, usn) ==
    add_or_update_single_deck_with_existing_id(
        [st EXCEPT !.deck =
            set_modified([new_normal EXCEPT !.id = did, !.name = recovered_name(did)],
                         usn, st.now)],
        usn)

-----------------------------------------------------------------------------
(* The inputs of the calls. *)

\* the name whose components are the given one-character components
Name(chars) == join([i \in 1..Len(chars) |-> <<chars[i]>>])

\* the name with n components "c"
Chain(n) == Name([i \in 1..n |-> "c"])

\* names of up to four components, in both cases, and two names that are
\* not normalized
ShortNames ==
    { Name(<<"a">>), Name(<<"b">>), Name(<<"a", "b">>), Name(<<"b", "a">>),
      Name(<<"B", "a">>), Name(<<"a", "b", "a">>), Name(<<"a", "b", "a", "b">>),
      <<"a", QUOTE>>, <<"b", SEP>> }

\* names around the recursion guard
DeepNames ==
    { Chain(1), Chain(MaxLevel + 1), Chain(MaxLevel + 2), Chain(MaxLevel + 3) }

\* the ids callers pass besides those of stored rows: the sentinel, and an
\* id no row of the model has
CallerIds == {0, 99}

\* the deck every collection starts with
DefaultDeck == [id |-> 1, name |-> Name(<<"A">>), kind |-> "Normal", mtime |-> 0, usn |-> 0]

\* the ids of the decks that sync, import and the database check bring,
\* besides those of stored rows
ForeignIds == {5, 12}

\* the names around a recovered deck
RecoverNames ==
    { recovered_name(i) : i \in ForeignIds } \cup { Name(<<"a">>), Name(<<"b", "a">>) }

\* the sync versions a caller of the crate-internal functions passes
SyncUsns == {ColUsn, 7}

\* What a call of the crate-internal functions adds to the record: the usn
\* it was given, and what first_existing_parent returned.
NoDetail == [usn |-> ColUsn, found |-> {}, lookups |-> 0, calls |-> 0]

NoCall ==
    [op |-> "none", arg |-> new_normal, pre |-> {}, err |-> Ok, out |-> new_normal,
     body |-> {}, tx |-> FALSE] @@ NoDetail

Call(op, arg, r) ==
    [op |-> op, arg |-> arg, pre |-> decks, err |-> r.err, out |-> r.deck,
     body |-> r.body, tx |-> r.tx] @@ NoDetail

\* the record of a call of a crate-internal function, made inside the
\* transaction its caller set up
InnerCall(op, arg, usn, r) ==
    [Call(op, arg, [tx |-> TRUE] @@ r) EXCEPT !.usn = usn]

\* the record of a first_existing_parent call
ParentCall(name, r) ==
    [op |-> "first_existing_parent", arg |-> [new_normal EXCEPT !.name = name],
     pre |-> decks, err |-> r.err, out |-> new_normal, body |-> decks, tx |-> FALSE,
     usn |-> ColUsn, found |-> r.val, lookups |-> r.lookups, calls |-> r.calls]

-----------------------------------------------------------------------------
(* The state machine: a collection and the public calls made on it. *)

Init ==
    /\ decks = {DefaultDeck}
    /\ univ \in {ShortNames, DeepNames}
    /\ steps = 0
    /\ last = NoCall

\* col.add_deck(&mut deck)
AddDeck ==
    /\ steps < MaxOps
    /\ \E id \in CallerIds, name \in univ, kind \in Kinds, fuel \in 0..MaxFail :
        LET arg == [new_normal EXCEPT !.id = id, !.name = name, !.kind = kind]
            r == add_deck(decks, arg, fuel, steps + 1)
        IN  /\ decks' = r.decks
            /\ last' = Call("add_deck", arg, r)
    /\ steps' = steps + 1
    /\ UNCHANGED univ

\* col.update_deck(&mut deck) with a deck the caller loaded and edited
UpdateLoaded ==
    /\ steps < MaxOps
    /\ \E row \in decks, kind \in Kinds, fuel \in 0..MaxFail :
        \E name \in univ \cup {row.name} :
            LET arg == [row EXCEPT !.name = name, !.kind = kind]
                r == update_deck(decks, arg, fuel, steps + 1)
            IN  /\ decks' = r.decks
                /\ last' = Call("update_deck", arg, r)
    /\ steps' = steps + 1
    /\ UNCHANGED univ

\* col.update_deck(&mut deck) with a deck whose id has no row
UpdateMissing ==
    /\ steps < MaxOps
    /\ \E id \in CallerIds, name \in univ, kind \in Kinds :
        LET arg == [new_normal EXCEPT !.id = id, !.name = name, !.kind = kind]
            r == update_deck(decks, arg, 0, steps + 1)
        IN  /\ decks' = r.decks
            /\ last' = Call("update_deck", arg, r)
    /\ steps' = steps + 1
    /\ UNCHANGED univ

Next == AddDeck \/ UpdateLoaded \/ UpdateMissing

Spec == Init /\ [][Next]_vars

-----------------------------------------------------------------------------
(* The state machine of the crate: the public calls and the crate-internal *)
(* functions that sync, import and the database check call.                *)

InitCrate ==
    /\ decks = {DefaultDeck}
    /\ univ \in {ShortNames, DeepNames, RecoverNames}
    /\ steps = 0
    /\ last = NoCall

\* add_or_update_single_deck_with_existing_id(&mut deck, usn) with a deck
\* that arrives with its own id and stamp
SyncDeck ==
    /\ steps < MaxOps
    /\ \E id \in {d.id : d \in decks} \cup ForeignIds, name \in univ, kind \in Kinds,
          usn \in SyncUsns, fuel \in 0..1 :
        LET arg == [new_normal EXCEPT !.id = id, !.name = name, !.kind = kind]
            r == transact(decks, add_or_update_single_deck_with_existing_id(
                                     Begin(decks, arg, fuel, steps + 1), usn))
        IN  /\ decks' = r.decks
            /\ last' = InnerCall("add_or_update_single_deck_with_existing_id", arg, usn, r)
    /\ steps' = steps + 1
    /\ UNCHANGED univ

\* recover_missing_deck(did, usn)
RecoverMissingDeck ==
    /\ steps < MaxOps
    /\ \E did \in ForeignIds, usn \in SyncUsns, fuel \in 0..1 :
        LET arg == [new_normal EXCEPT !.id = did]
            r == transact(decks, recover_missing_deck(
                                     Begin(decks, new_normal, fuel, steps + 1), did, usn))
        IN  /\ decks' = r.decks
            /\ last' = InnerCall("recover_missing_deck", arg, usn, r)
    /\ steps' = steps + 1
    /\ UNCHANGED univ

\* create_missing_parents(machine_name, usn) on a normalized name
CreateMissingParents ==
    /\ steps < MaxOps
    /\ \E name \in univ, fuel \in 0..MaxFail :
        LET arg == [new_normal EXCEPT !.name = normalize_native_name(name)]
            r == transact(decks, create_missing_parents(
                                     Begin(decks, arg, fuel, steps + 1), arg.name, ColUsn))
        IN  /\ decks' = r.decks
            /\ last' = InnerCall("create_missing_parents", arg, ColUsn, r)
    /\ steps' = steps + 1
    /\ UNCHANGED univ

\* first_existing_parent(machine_name, 0) on a normalized name
FirstExistingParent ==
    /\ steps < MaxOps
    /\ \E name \in univ :
        last' = ParentCall(normalize_native_name(name),
                           first_existing_parent(decks, normalize_native_name(name), 0))
    /\ steps' = steps + 1
    /\ UNCHANGED <<decks, univ>>

NextCrate ==
    \/ AddDeck \/ UpdateLoaded \/ UpdateMissing
    \/ SyncDeck \/ RecoverMissingDeck \/ CreateMissingParents \/ FirstExistingParent

SpecCrate == InitCrate /\ [][NextCrate]_vars

-----------------------------------------------------------------------------
(* Vocabulary of the properties. *)

Names(rows) == {d.name : d \in rows}

NumComponents(name) == Len(split(name))

\* p is a strict component-wise prefix of n
IsStrictPrefix(p, n) ==
    /\ Len(p) < Len(n)
    /\ SubSeq(n, 1, Len(p) + 1) = p \o <<SEP>>

\* the names of the proper ancestors of name
AncestorNames(name) ==
    {SubSeq(name, 1, i - 1) : i \in {j \in 1..Len(name) : name[j] = SEP}}

AncestorComplete(rows) ==
    \A d \in rows :
        NumComponents(d.name) > 1 =>
            \E p \in rows :
                p.name = join(SubSeq(split(d.name), 1, NumComponents(d.name) - 1))

LeafFiltered(rows) ==
    \A f \in rows, d \in rows : is_filtered(f) => ~IsStrictPrefix(f.name, d.name)

NamesUnique(rows) ==
    \A d \in rows, e \in rows : d.id # e.id => d.name # e.name

Succeeded == last.op # "none" /\ last.err = Ok
Failed == last.op # "none" /\ last.err # Ok

\* the rows the last call added, and the row the last update was about
NewRows == {d \in decks : d.id \notin {e.id : e \in last.pre}}
OriginalRows == {o \in last.pre : o.id = last.arg.id}

\* the name of the last call's deck after normalization and uniqueness
\* handling, before reconciliation with its ancestors
PreparedName ==
    prepare_deck_for_update(Begin(last.pre, last.arg, 0, steps), ColUsn).deck.name

\* the last call was an update that changed the name of a stored deck
IsRename ==
    /\ last.op = "update_deck"
    /\ \E o \in OriginalRows : o.name # PreparedName

\* the last call resolved the ancestors of PreparedName
Resolved == (last.op = "add_deck" /\ last.arg.id = 0) \/ IsRename

-----------------------------------------------------------------------------
(* C1: ancestor completeness.  After any sequence of add_deck and          *)
(* update_deck calls on a collection that started ancestor-complete, every *)
(* stored deck with more than one component has a stored deck named by all *)
(* its components but the last.                                            *)
C1_AncestorCompleteness == AncestorComplete(decks)

\* a deck with children was renamed to a name beneath its own old name
C1_Witness ==
    /\ Succeeded /\ last.op = "update_deck"
    /\ \E o \in OriginalRows :
        /\ IsStrictPrefix(o.name, last.out.name)
        /\ child_decks(last.pre, o) # {}

(* C2: leaf-filtered constraint.  After any sequence of add_deck and       *)
(* update_deck calls, where an update may change the name and the kind, no *)
(* stored deck has the name of a stored Filtered deck as a strict prefix.  *)
C2_LeafFiltered == LeafFiltered(decks)

(* C3: name uniqueness.  No two stored decks have the same name, and a     *)
(* deck added under a name that is already stored is stored under another  *)
(* name that no deck had.                                                  *)
C3_NameUniqueness ==
    /\ NamesUnique(decks)
    /\ (Succeeded /\ last.op = "add_deck") =>
          /\ last.out.name \notin Names(last.pre)
          /\ \E d \in NewRows : d.id = last.out.id /\ d.name = last.out.name

\* a deck was added under a name another deck had, letter for letter
C3_Witness ==
    /\ Succeeded /\ last.op = "add_deck"
    /\ normalize_native_name(last.arg.name) \in Names(last.pre)
    /\ Cardinality(decks) > Cardinality(last.pre)

(* C4: all or nothing.  When add_deck or update_deck returns an error, at  *)
(* whatever step, the stored rows (ids, names, kinds, stamps) are those    *)
(* stored before the call.                                                 *)
C4_AllOrNothing == Failed => decks = last.pre

\* an update failed in storage after its body had renamed a descendant and
\* created an ancestor
C4_Witness ==
    /\ Failed /\ last.op = "update_deck" /\ last.err = ErrDb
    /\ \E d \in last.body : d.id \notin {e.id : e \in last.pre}
    /\ \E d \in last.body, e \in last.pre :
          d.id = e.id /\ d.id # last.arg.id /\ d.name # e.name

\* the stored decks that are proper ancestors of name, as the storage
\* compares names, and the nearest of them
ExistingAncestors(rows, name) ==
    {d \in rows : \E a \in AncestorNames(name) : Fold(a) = Fold(d.name)}

NearestAncestor(rows, name) ==
    {d \in ExistingAncestors(rows, name) :
        \A e \in ExistingAncestors(rows, name) : Len(e.name) <= Len(d.name)}

\* the failure happened before any row was written
NothingWritten == decks = last.pre /\ last.body = last.pre

(* C5 as stated: adding or renaming a deck to a name whose nearest stored  *)
(* ancestor is Filtered fails with FilteredDeckMustBeLeaf before any row   *)
(* is written.                                                             *)
C5_Original ==
    (Resolved /\ \E p \in NearestAncestor(last.pre, PreparedName) : is_filtered(p))
        => (last.err = ErrMustBeLeaf /\ NothingWritten)

(* C5 amended: adding or renaming a deck to a name whose nearest stored    *)
(* ancestor is Filtered and is one of the name's MaxLevel + 1 nearest      *)
(* proper ancestors fails with FilteredDeckMustBeLeaf before any row is    *)
(* written.                                                                *)
C5_FilteredAncestorRejected ==
    (Resolved /\ \E p \in NearestAncestor(last.pre, PreparedName) :
                    /\ is_filtered(p)
                    /\ NumComponents(PreparedName) - NumComponents(p.name) <= MaxLevel + 1)
        => (last.err = ErrMustBeLeaf /\ NothingWritten)

\* a deck was renamed to a name under a Filtered deck other than itself
C5_Witness ==
    /\ IsRename /\ last.err = ErrMustBeLeaf
    /\ \E p \in NearestAncestor(last.pre, PreparedName) :
          is_filtered(p) /\ p.id # last.arg.id

\* none of the MaxLevel + 1 nearest proper ancestors of name is stored
NearAncestorsMissing(rows, name) ==
    \A a \in AncestorNames(name) :
        NumComponents(name) - NumComponents(a) <= MaxLevel + 1 =>
            ~\E d \in rows : Fold(d.name) = Fold(a)

(* C6 as stated: adding or renaming a deck to a name with more than        *)
(* MaxLevel proper ancestors fails with InvalidInput and writes nothing,   *)
(* so no deck with such a name is ever stored.                             *)
C6_Original ==
    /\ (Resolved /\ NumComponents(PreparedName) - 1 > MaxLevel)
          => (IsInvalidInput(last.err) /\ NothingWritten)
    /\ \A d \in decks : NumComponents(d.name) - 1 <= MaxLevel

(* C6 amended: adding or renaming a deck to a name with more than          *)
(* MaxLevel proper ancestors, none of whose MaxLevel + 1 nearest proper    *)
(* ancestors is stored, fails with InvalidInput and writes nothing.        *)
C6_DeepChainRejected ==
    (/\ Resolved
     /\ NumComponents(PreparedName) - 1 > MaxLevel
     /\ NearAncestorsMissing(last.pre, PreparedName))
        => (last.err = ErrTooDeep /\ NothingWritten)

\* a rename to a deep name was rejected by the recursion guard
C6_Witness == IsRename /\ last.err = ErrTooDeep

(* C7: a successful add_deck stores one row for the target and one Normal  *)
(* row for each proper ancestor of the target's name that was not stored,  *)
(* all under distinct fresh non-zero ids, and leaves every other row as it *)
(* was.                                                                    *)
C7_AddCreatesExactly ==
    (Succeeded /\ last.op = "add_deck") =>
        LET created == decks \ last.pre
            expected == {last.out.name} \cup
                        {a \in AncestorNames(last.out.name) : a \notin Names(last.pre)}
        IN  /\ last.pre \subseteq decks
            /\ Names(created) = expected
            /\ Cardinality(created) = Cardinality(expected)
            /\ last.out \in created
            /\ last.out.kind = last.arg.kind
            /\ \A d \in created : d.name # last.out.name => d.kind = "Normal"
            /\ \A d \in created : d.id # 0 /\ d.id \notin {e.id : e \in last.pre}
            /\ Cardinality({d.id : d \in created}) = Cardinality(created)

\* an add created two ancestors under an ancestor that was stored
C7_Witness ==
    /\ Succeeded /\ last.op = "add_deck"
    /\ Cardinality(decks \ last.pre) >= 3
    /\ \E a \in AncestorNames(last.out.name) : a \in Names(last.pre)

(* C8: after a successful update_deck that changed a deck's name from O to *)
(* N, every deck that had O as a strict prefix is stored under its id with *)
(* N in place of O, and every other deck but the renamed one keeps its     *)
(* name.                                                                   *)
C8_RenameCascade ==
    (Succeeded /\ last.op = "update_deck") =>
        \A o \in OriginalRows :
            o.name # last.out.name =>
                /\ \E e \in decks : e.id = o.id /\ e.name = last.out.name
                /\ \A d \in last.pre :
                      IF IsStrictPrefix(o.name, d.name)
                      THEN \E e \in decks :
                              /\ e.id = d.id
                              /\ e.name = last.out.name \o
                                          SubSeq(d.name, Len(o.name) + 1, Len(d.name))
                      ELSE d.id # o.id => \E e \in decks : e.id = d.id /\ e.name = d.name

\* a deck with a child was renamed while another deck was not beneath it
C8_Witness ==
    /\ Succeeded /\ last.op = "update_deck"
    /\ \E o \in OriginalRows :
          /\ o.name # last.out.name
          /\ child_decks(last.pre, o) # {}
          /\ \E d \in last.pre : d.id # o.id /\ ~IsStrictPrefix(o.name, d.name)

\* the nearest stored ancestors of the prepared name that are stored in
\* another case than the name was written
CaseAncestors ==
    {p \in NearestAncestor(last.pre, PreparedName) :
        p.name # SubSeq(PreparedName, 1, Len(p.name))}

\* the deck got the ancestor's stored name as prefix, and no deck differing
\* from the ancestor's name only in case is stored
Reconciled(p) ==
    /\ last.out.name = p.name \o SubSeq(PreparedName, Len(p.name) + 1, Len(PreparedName))
    /\ \E e \in decks : e.id = last.out.id /\ e.name = last.out.name
    /\ \A e \in decks : Fold(e.name) = Fold(p.name) => e.name = p.name

(* C9 as stated: a deck added or renamed to a name whose nearest stored    *)
(* ancestor is stored in another case is stored with the ancestor's stored *)
(* name as prefix, no deck differing only in case is created, and the      *)
(* ancestor keeps its stored name.                                         *)
C9_Original ==
    (Succeeded /\ Resolved) =>
        \A p \in CaseAncestors :
            /\ Reconciled(p)
            /\ \E e \in decks : e.id = p.id /\ e.name = p.name

(* C9 amended: ... and the ancestor keeps its stored name unless it is the *)
(* deck being renamed or one of its descendants, which the rename moves;   *)
(* a deck with the ancestor's stored name is stored in either case.        *)
C9_CaseReconciliation ==
    (Succeeded /\ Resolved) =>
        \A p \in CaseAncestors :
            /\ Reconciled(p)
            /\ \E e \in decks : e.name = p.name
            /\ (\A o \in OriginalRows : p.id # o.id /\ ~IsStrictPrefix(o.name, p.name))
                  => \E e \in decks : e.id = p.id /\ e.name = p.name

\* a deck was added beneath an ancestor stored in another case
C9_Witness ==
    /\ Succeeded /\ last.op = "add_deck"
    /\ \E p \in CaseAncestors : NumComponents(p.name) > 1

(* C10: add_deck with a deck whose id is not 0 fails with InvalidInput     *)
(* without opening a transaction and leaves the table and the caller's     *)
(* deck as they were; after a successful add_deck the deck's id is not 0   *)
(* and a row with that id is stored.                                       *)
C10_AddIdPrecondition ==
    /\ (last.op = "add_deck" /\ last.arg.id # 0) =>
          /\ last.err = ErrIdNotZero
          /\ ~last.tx
          /\ decks = last.pre
          /\ last.out = last.arg
    /\ (Succeeded /\ last.op = "add_deck") =>
          /\ last.out.id # 0
          /\ \E d \in decks : d.id = last.out.id

\* add_deck was called with a deck that has an id
C10_Witness == last.op = "add_deck" /\ last.arg.id # 0 /\ decks # {DefaultDeck}

(* C11: update_deck never upserts.  An update_deck whose deck has an id   *)
(* that no stored row has, the sentinel 0 included, fails with NotFound,   *)
(* leaves the stored rows as they were, also inside its transaction, and   *)
(* no row with that id is stored afterwards.                               *)
C11_UpdateNeverUpserts ==
    (last.op = "update_deck" /\ OriginalRows = {}) =>
        /\ last.err = ErrNotFound
        /\ decks = last.pre
        /\ last.body = last.pre
        /\ \A d \in decks : d.id # last.arg.id

\* update_deck was called with the sentinel id on a collection an earlier
\* call had changed
C11_Witness ==
    /\ last.op = "update_deck" /\ OriginalRows = {}
    /\ last.arg.id = 0
    /\ last.err = ErrNotFound
    /\ decks # {DefaultDeck}

\* the stored decks other than the one the last call was about
OtherRows(rows) == {d \in rows : d.id # last.arg.id}

\* another deck has the name a recovered deck would get
RecoveredNameTaken ==
    \E d \in OtherRows(last.pre) : Fold(d.name) = Fold(recovered_name(last.arg.id))

(* C12: recover_missing_deck(did, usn), when it succeeds, stores a Normal  *)
(* deck whose id is did and whose name is "recovered" followed by the      *)
(* decimal digits of did, with "+" appended only while a deck with another *)
(* id has the name; the deck carries the given usn and the time of the     *)
(* call; every row with another id is left as it was.                      *)
C12_RecoverMissingDeck ==
    (Succeeded /\ last.op = "recover_missing_deck") =>
        /\ last.out.id = last.arg.id
        /\ last.out.kind = "Normal"
        /\ last.out.usn = last.usn
        /\ last.out.mtime = steps
        /\ decks = OtherRows(last.pre) \cup {last.out}
        /\ ~RecoveredNameTaken => last.out.name = recovered_name(last.arg.id)
        /\ (~RecoveredNameTaken /\ last.arg.id = 12) =>
              last.out.name = <<"r", "e", "c", "o", "v", "e", "r", "e", "d", "1", "2">>
        /\ RecoveredNameTaken =>
              /\ Len(last.out.name) > Len(recovered_name(last.arg.id))
              /\ \A i \in 1..Len(last.out.name) :
                    last.out.name[i] =
                        IF i <= Len(recovered_name(last.arg.id))
                        THEN recovered_name(last.arg.id)[i] ELSE "+"
              /\ \A d \in OtherRows(decks) : Fold(d.name) # Fold(last.out.name)

\* a deck was recovered while another deck had the name "recovered<id>"
C12_Witness ==
    /\ Succeeded /\ last.op = "recover_missing_deck"
    /\ RecoveredNameTaken
    /\ Cardinality(decks) = 3

\* create_missing_parents run again on the store as it is now
SecondRun ==
    create_missing_parents(Begin(decks, last.arg, 0, steps + 1), last.arg.name, ColUsn)

(* C13: create_missing_parents is idempotent.  Run again on the store a    *)
(* successful create_missing_parents(name) left, it succeeds, creates no   *)
(* deck and leaves every row as it is; and one run on a name whose proper  *)
(* ancestors are all stored succeeds and changes nothing.                  *)
C13_CreateMissingParentsIdempotent ==
    last.op = "create_missing_parents" =>
        /\ Succeeded => (SecondRun.err = Ok /\ SecondRun.decks = decks)
        /\ (\A a \in AncestorNames(last.arg.name) : get_deck_id(last.pre, a) # {}) =>
              (Succeeded /\ decks = last.pre /\ last.body = last.pre)

\* a run of create_missing_parents created two ancestors or more
C13_Witness ==
    /\ Succeeded /\ last.op = "create_missing_parents"
    /\ Cardinality(NewRows) >= 2

\* the last call was an update that kept the stored name of its deck
IsSameNameUpdate ==
    /\ last.op = "update_deck"
    /\ \E o \in OriginalRows : o.name = PreparedName

(* C14: an update_deck whose name, after normalization and uniqueness      *)
(* handling, is the stored name of the same deck writes that deck's row    *)
(* only: it fails with a storage error or not at all (never with           *)
(* FilteredDeckMustBeLeaf or an InvalidInput), no row is created, and no   *)
(* other row is renamed or stamped, inside the transaction or after it.    *)
C14_SameNameUpdate ==
    IsSameNameUpdate =>
        /\ last.err \in {Ok, ErrDb}
        /\ OtherRows(last.body) = OtherRows(last.pre)
        /\ OtherRows(decks) = OtherRows(last.pre)
        /\ Succeeded =>
              /\ decks = OtherRows(last.pre) \cup {last.out}
              /\ last.out.name = PreparedName

\* a deck stored without its ancestors, which first_existing_parent would
\* reject or create_missing_parents would add, was updated under its name
C14_Witness ==
    /\ IsSameNameUpdate /\ Succeeded
    /\ \E a \in AncestorNames(PreparedName) : get_deck_id(last.pre, a) = {}

\* the names the rename of o to name vacated among the ancestors of name:
\* o's old name and the names beneath it
VacatedAncestors(o, name) ==
    {a \in AncestorNames(name) : a = o.name \/ IsStrictPrefix(o.name, a)}

(* C15: order of a name-changing update.  The ancestors are reconciled,    *)
(* the descendants renamed and the deck's own row written before the       *)
(* missing ancestors are created a second time: after a successful         *)
(* update_deck that moved a deck beneath its own old name, the deck is     *)
(* stored under its new name, and its old name and every ancestor name     *)
(* beneath it is the name of a Normal deck that was not stored before.     *)
C15_ParentToChild ==
    (Succeeded /\ last.op = "update_deck") =>
        \A o \in OriginalRows :
            IsStrictPrefix(o.name, last.out.name) =>
                /\ last.out \in decks
                /\ \A a \in VacatedAncestors(o, last.out.name) :
                      \E d \in NewRows : d.name = a /\ d.kind = "Normal"

\* a deck with children was moved two levels or more beneath its old name
C15_Witness ==
    /\ Succeeded /\ last.op = "update_deck"
    /\ \E o \in OriginalRows :
        /\ Cardinality(VacatedAncestors(o, last.out.name)) >= 2
        /\ child_decks(last.pre, o) # {}

(* C16: first_existing_parent(name, 0) never changes the store; when it  *)
(* returns Ok, it returns the stored deck whose name is, as the storage    *)
(* compares names, the longest proper component-wise prefix of name that   *)
(* is stored, and it returns None exactly when no proper prefix of name is *)
(* stored.                                                                 *)
C16_NearestAncestor ==
    last.op = "first_existing_parent" =>
        /\ decks = last.pre
        /\ last.err = Ok =>
              /\ last.found = NearestAncestor(last.pre, last.arg.name)
              /\ last.found = {} <=> ExistingAncestors(last.pre, last.arg.name) = {}

\* first_existing_parent passed a missing level and returned the nearer of
\* two stored ancestors
C16_Witness ==
    /\ last.op = "first_existing_parent" /\ last.err = Ok
    /\ last.found # {}
    /\ last.lookups >= 2
    /\ Cardinality(ExistingAncestors(last.pre, last.arg.name)) >= 2

(* C17: the single-deck path of sync and import.  A call of               *)
(* add_or_update_single_deck_with_existing_id(deck, usn) fails with a      *)
(* storage error or not at all and leaves every row with another id as it  *)
(* was: no ancestor is created, no descendant renamed.  The row it writes  *)
(* has the id and kind given; it has the mtime and usn given when          *)
(* normalization and uniqueness handling left the name as given, and the   *)
(* usn argument and the time of the call when they changed the name.       *)
C17_SingleDeckPath ==
    last.op = "add_or_update_single_deck_with_existing_id" =>
        /\ last.err \in {Ok, ErrDb}
        /\ OtherRows(last.body) = OtherRows(last.pre)
        /\ OtherRows(decks) = OtherRows(last.pre)
        /\ Succeeded =>
              /\ decks = OtherRows(last.pre) \cup {last.out}
              /\ last.out.id = last.arg.id /\ last.out.kind = last.arg.kind
              /\ last.out.name = PreparedName
              /\ last.out.name = last.arg.name =>
                    (last.out.mtime = last.arg.mtime /\ last.out.usn = last.arg.usn)
              /\ last.out.name # last.arg.name =>
                    (last.out.mtime = steps /\ last.out.usn = last.usn)

\* a deck arrived under a name another deck had and was stored under a new
\* name, beneath an ancestor name that no deck has
C17_Witness ==
    /\ Succeeded /\ last.op = "add_or_update_single_deck_with_existing_id"
    /\ last.out.name # last.arg.name
    /\ \E a \in AncestorNames(last.out.name) : get_deck_id(decks, a) = {}

(* C18: only ancestors are created.  After a successful add_deck or       *)
(* update_deck, every deck that is stored and was not stored before, other *)
(* than the deck of the call, has a name that is a proper component-wise   *)
(* prefix of the name the deck of the call is stored under: nothing is     *)
(* left beneath the added or renamed deck.                                 *)
C18_OnlyAncestorsCreated ==
    (Succeeded /\ last.op \in {"add_deck", "update_deck"}) =>
        \A d \in NewRows :
            d.id # last.out.id => IsStrictPrefix(d.name, last.out.name)

\* name has more than MaxLevel + 1 components and none of its MaxLevel + 1
\* nearest proper ancestors is stored
TooManyMissingLevels(rows, name) ==
    /\ NumComponents(name) >= MaxLevel + 2
    /\ NearAncestorsMissing(rows, name)

(* C19: the depth guard counts missing ancestor levels.                    *)
(* first_existing_parent(name, 0) returns Ok or InvalidInput, and          *)
(* InvalidInput exactly when name has MaxLevel + 2 components or more and  *)
(* none of its MaxLevel + 1 nearest proper ancestors is stored; it makes   *)
(* at most MaxLevel + 1 name lookups and at most MaxLevel + 2 nested       *)
(* invocations.  An add_deck or update_deck that resolves ancestors is     *)
(* rejected by the guard under the same condition only, so a name of any   *)
(* depth with a near stored ancestor, and a name of up to MaxLevel + 1     *)
(* components, passes it.                                                  *)
C19_GuardCountsMissingLevels ==
    /\ last.op = "first_existing_parent" =>
          /\ last.err \in {Ok, ErrTooDeep}
          /\ last.err = ErrTooDeep <=> TooManyMissingLevels(last.pre, last.arg.name)
          /\ last.lookups <= MaxLevel + 1
          /\ last.calls <= MaxLevel + 2
    /\ Resolved =>
          (last.err = ErrTooDeep <=> TooManyMissingLevels(last.pre, PreparedName))

\* a name of MaxLevel + 2 components was resolved with the last lookup the
\* guard allows
C19_Witness ==
    /\ last.op = "first_existing_parent" /\ last.err = Ok
    /\ NumComponents(last.arg.name) >= MaxLevel + 2
    /\ last.lookups = MaxLevel + 1
    /\ last.found # {}

(* C20: no hierarchy-valid request is rejected.  add_deck or update_deck  *)
(* fails with FilteredDeckMustBeLeaf only when a stored Filtered deck      *)
(* other than the deck of the call is a proper ancestor of the name the    *)
(* deck would be stored under; the deck being renamed never blocks its own *)
(* rename.                                                                 *)
C20_BlockedByAnotherDeckOnly ==
    (last.op \in {"add_deck", "update_deck"} /\ last.err = ErrMustBeLeaf) =>
        \E f \in OtherRows(ExistingAncestors(last.pre, PreparedName)) : is_filtered(f)

====
